---- MODULE Spec2Model ----
(***************************************************************************)
(* BlackjackEnv of HW1/blackjack.py as a state machine.                    *)
(*                                                                         *)
(* The engine's three list attributes (player, dealer, deck3) are Python   *)
(* list objects.  A caller holds at most one snapshot s, the list returned *)
(* by get_state.  reset(s) binds the engine's attributes to the very list  *)
(* objects of s, so the model records, next to the contents of the lists,  *)
(* which attribute is the same object as which component of s (alias).     *)
(* Rewards are floats in the source; the model counts them in tenths.      *)
(***************************************************************************)
EXTENDS Integers, Sequences, FiniteSets, TLC

\* ------------------------------------------------------------------ bounds
\* A behaviour is followed within three bounds.
\*   ranks: the four cards the constructor deals are of the first `ranks`
\*          ranks of an order of the ten ranks; with 10, every deal is made.
\*   other: after construction np_random returns any card of the shoe, until
\*          `other` of the cards it returned were not of these ranks; from
\*          then on it returns a card of these ranks, or the first card of
\*          the shoe when none is left. A call draws at most 16 cards, so a
\*          bound of 16 or more for each call a behaviour makes leaves every
\*          card of every call free.
\*   draws: the caller makes a call while fewer than `draws` cards have been
\*          drawn after construction; a call that is made draws all the
\*          cards it draws, so with 1 there is one call that draws.

\* One call on a round dealt from tens and aces, every card free.
MaxRanks == 2
MaxOther == 20
MaxDraws == 1
\* Long rounds of low cards.
MaxRanksLow == 2
MaxOtherLow == 0
MaxDrawsLow == 21
\* One hit on every deal of the constructor.
MaxRanksDeal == 10
MaxOtherDeal == 20
MaxDrawsDeal == 1
\* One call on the shoe that the deal of four tens leaves, every card free.
MaxRanksReset == 1
MaxOtherReset == 20
MaxDrawsReset == 1
\* Long runs that empty the shoe down to the low-water mark.
MaxRanksShoe == 1
MaxOtherShoe == 0
MaxDrawsShoe == 22
\* Runs with snapshots.
MaxRanksSnap == 2
MaxOtherSnap == 0
MaxDrawsSnap == 2

\* The calls of draw_card and draw_hand that the caller makes itself, in one
\* behaviour.
MaxDirect == 1

MaxHandLen == 4
MaxInt == 10

\* The orders of the ranks.
Order == <<10, 1, 7, 2, 6, 9, 3, 8, 4, 5>>
OrderLow == <<1, 2, 3, 4, 5, 6, 7, 8, 9, 10>>

First(list, n) == {list[i] : i \in {j \in DOMAIN list : j <= n}}

\* --------------------------------------------------------------- constants
LowWater == 15
DealerStands == 17
BustLimit == 21
AceBonus == 10
NumActions == 3

\* 1 = Ace, 2-10 = number cards, Jack/Queen/King = 10
deck == <<1, 2, 3, 4, 5, 6, 7, 8, 9, 10, 10, 10, 10>>

\* self.deck * 3
FreshDeck3 == deck \o deck \o deck

VARIABLES
    natural,    \* the constructor's flag
    player,     \* contents of the list self.player
    dealer,     \* contents of the list self.dealer
    deck3,      \* contents of the list self.deck3
    snap,       \* the caller's snapshot s: [has, p, d, k]
    alias,      \* [p, d, k]: self.player is s[0], self.dealer is s[1], self.deck3 is s[2]
    call,       \* the last call: [op, action]
    ret,        \* what it returned: [obs, reward, done, raised]
    log,        \* the draws the last call made: [card, before, from], the shoe's
                \* length when draw_card was entered and when the card was picked
    phase,      \* "IN_PROGRESS", "DONE" or "ADOPTED" (position set by reset(state))
    taken,      \* what get_state returned, as it was when it returned
    adopted,    \* the snapshot has been passed to reset(state)
    upcard,     \* the first card the last reset() drew for the dealer
    fill,       \* how many cards of each rank were drawn since the shoe was
                \* last made of self.deck * 3
    steps,      \* steps the round in progress has taken (0 when none is)
    probe,      \* the last direct call of a hand helper or of cmp, and its value
    drawn,      \* cards drawn since construction
    others,     \* cards drawn since construction that were not of the ranks of pick
    pick,       \* the ranks the constructor deals from
    maxOther,   \* the bound on others
    maxDraws,   \* the bound on drawn
    asserts,    \* the interpreter runs assert statements (it does not under -O)
    direct      \* the calls of draw_card and draw_hand the caller made itself

vars == <<natural, player, dealer, deck3, snap, alias, call, ret, log, phase,
          taken, adopted, upcard, fill, steps, probe, drawn, others, pick,
          maxOther, maxDraws, asserts, direct>>

\* ------------------------------------------------------------ hand helpers
RECURSIVE Sum(_)
Sum(hand) == IF hand = <<>> THEN 0 ELSE Head(hand) + Sum(Tail(hand))

Has(hand, c) == \E i \in DOMAIN hand : hand[i] = c

usable_ace_any(hand) == Has(hand, 1)

usable_ace(hand) == Has(hand, 1) /\ Sum(hand) + AceBonus <= BustLimit

sum_hand(hand) == IF usable_ace(hand) THEN Sum(hand) + AceBonus ELSE Sum(hand)

is_bust_over_22(hand) == sum_hand(hand) > BustLimit + 1

is_bust_at_21(hand) == sum_hand(hand) >= BustLimit

is_bust(hand) == sum_hand(hand) > BustLimit

score_of_bust_hand(hand) == sum_hand(hand)

score(hand) == IF is_bust(hand) THEN 0 ELSE sum_hand(hand)

cmp_ge(a, b) == (IF a >= b THEN 1 ELSE 0) - (IF a < b THEN 1 ELSE 0)

\* float(a > b) - float(a < b)
cmp(a, b) == (IF a > b THEN 1 ELSE 0) - (IF a < b THEN 1 ELSE 0)

\* sorted(hand), by insertion
RECURSIVE Insert(_, _)
Insert(c, s) == IF s = <<>> THEN <<c>>
                ELSE IF c <= Head(s) THEN <<c>> \o s
                ELSE <<Head(s)>> \o Insert(c, Tail(s))

RECURSIVE sorted(_)
sorted(hand) == IF hand = <<>> THEN <<>> ELSE Insert(Head(hand), sorted(Tail(hand)))

is_natural(hand) == sorted(hand) = <<1, 10>>

\* A float of the source, in tenths.
Tenths(n) == n * 10
NaturalPayout == 15

\* ------------------------------------------------------------------- shoe
Held(d) == {d[i] : i \in DOMAIN d}

\* The values np_random.choice(self.deck3) may return: any element of the list
choice(d) == Held(d)

\* list.remove(card): the first occurrence goes
remove(d, c) ==
    LET i == CHOOSE i \in DOMAIN d : d[i] = c /\ \A j \in 1..(i - 1) : d[j] # c
    IN  SubSeq(d, 1, i - 1) \o SubSeq(d, i + 1, Len(d))

\* -------------------------------------------------------------- the engine
\* self.np_random: either nothing is known of the values it returns, or it
\* returns any card until `other` of them were not of the ranks of `pick`.
AnySeed == [known |-> FALSE, pick |-> {}, other |-> 0]

\* The cards of the ranks p in the list d, or its first card when it holds none.
Narrow(p, d) == IF Held(d) \cap p # {} THEN Held(d) \cap p ELSE {Head(d)}

\* The objects one call works on: the engine's lists, the caller's snapshot,
\* which of them are one object, the random source (rng), the draws made so
\* far by the call, and whether the call is still running (ok) or has raised.
Machine == [player |-> player, dealer |-> dealer, deck3 |-> deck3,
            snap |-> snap, alias |-> alias, rng |-> AnySeed, log |-> <<>>, ok |-> TRUE]

\* self.np_random.choice(d) with the source rng: any element of the list,
\* within the bound of the source
choice_of(rng, d) ==
    IF ~rng.known \/ rng.other > 0 THEN choice(d) ELSE Narrow(rng.pick, d)

low_water_strict(d) == Len(d) < LowWater

\* len(self.deck3) <= 15
low_water(d) == Len(d) <= LowWater

refill_onto_rest(m) == IF low_water(m.deck3)
                       THEN [m EXCEPT !.deck3 = @ \o FreshDeck3]
                       ELSE m

\* self.deck3 = self.deck * 3 binds a new list: s[2] keeps the old one
refill(m) == IF low_water(m.deck3)
             THEN [m EXCEPT !.deck3 = FreshDeck3, !.alias.k = FALSE]
             ELSE m

\* draw_card: the outcomes [m, card]; choice raises ValueError on an empty list
draw_card(m) ==
    LET r == refill(m)
    IN  IF r.deck3 = <<>>
        THEN {[m |-> [r EXCEPT !.ok = FALSE], card |-> 0]}
        ELSE {[m |-> [r EXCEPT !.deck3 = remove(@, c),
                               !.snap.k = IF r.alias.k THEN remove(@, c) ELSE @,
                               !.rng.other = IF r.rng.known /\ c \notin Narrow(r.rng.pick, r.deck3)
                                             THEN @ - 1 ELSE @,
                               !.log = Append(@, [card |-> c, before |-> Len(m.deck3),
                                                  from |-> Len(r.deck3)])],
               card |-> c] : c \in choice_of(r.rng, r.deck3)}

\* draw_hand: [self.draw_card(), self.draw_card()], the outcomes [m, hand]
draw_hand(m) ==
    UNION {IF ~o1.m.ok THEN {[m |-> o1.m, hand |-> <<>>]}
           ELSE {[m |-> o2.m, hand |-> <<o1.card, o2.card>>] : o2 \in draw_card(o1.m)}
           : o1 \in draw_card(m)}

\* self.player.append(self.draw_card()): the list is changed in place
hit(m) == {IF ~o.m.ok THEN o.m
           ELSE [o.m EXCEPT !.player = Append(@, o.card),
                            !.snap.p = IF o.m.alias.p THEN Append(@, o.card) ELSE @]
           : o \in draw_card(m)}

\* self.dealer.append(self.draw_card())
dealer_draw(m) == {IF ~o.m.ok THEN o.m
                   ELSE [o.m EXCEPT !.dealer = Append(@, o.card),
                                    !.snap.d = IF o.m.alias.d THEN Append(@, o.card) ELSE @]
                   : o \in draw_card(m)}

dealer_draws_on_17(hand) == sum_hand(hand) <= DealerStands

\* self.sum_hand(self.dealer) < 17
dealer_draws(hand) == sum_hand(hand) < DealerStands

RECURSIVE play_dealer_do_while(_)
play_dealer_do_while(m) ==
    IF ~m.ok THEN {m}
    ELSE UNION {IF x.ok /\ dealer_draws(x.dealer) THEN play_dealer_do_while(x) ELSE {x}
                : x \in dealer_draw(m)}

\* while self.sum_hand(self.dealer) < 17: self.dealer.append(self.draw_card())
RECURSIVE play_dealer(_)
play_dealer(m) == IF m.ok /\ dealer_draws(m.dealer)
                  THEN UNION {play_dealer(x) : x \in dealer_draw(m)}
                  ELSE {m}

get_obs_last_card(m) == <<sum_hand(m.player), m.dealer[Len(m.dealer)], usable_ace(m.player)>>

\* (self.sum_hand(self.player), self.dealer[0], self.usable_ace(self.player))
get_obs(m) == <<sum_hand(m.player), m.dealer[1], usable_ace(m.player)>>

\* self.action_space.contains(action), action_space = Discrete(3)
contains(a) == a \in 0..(NumActions - 1)

\* the reward of stand
stand_reward(m) ==
    LET reward == Tenths(cmp(score(m.player), score(m.dealer)))
    IN  IF natural /\ is_natural(m.player) /\ reward = Tenths(1)
        THEN NaturalPayout ELSE reward

double_reward_single(m) == Tenths(cmp(score(m.player), score(m.dealer)))

\* the reward of double
double_reward(m) == 2 * Tenths(cmp(score(m.player), score(m.dealer)))

\* the reward and done of hit
hit_reward(m) == IF is_bust(m.player) THEN Tenths(-1) ELSE 0

hit_done_never(m) == FALSE

hit_done(m) == is_bust(m.player)

step_double_stops_on_bust(m, action) ==
    IF action = 1
    THEN {[m |-> x, reward |-> hit_reward(x), done |-> hit_done(x)] : x \in hit(m)}
    ELSE IF action = 2
    THEN UNION {IF y.ok /\ is_bust(y.player)
                THEN {[m |-> y, reward |-> 2 * Tenths(-1), done |-> TRUE]}
                ELSE {[m |-> x, reward |-> double_reward(x), done |-> TRUE]
                      : x \in play_dealer(y)}
                : y \in hit(m)}
    ELSE {[m |-> x, reward |-> stand_reward(x), done |-> TRUE] : x \in play_dealer(m)}

\* step, after the assert: the outcomes [m, reward, done]
step(m, action) ==
    IF action = 1
    THEN {[m |-> x, reward |-> hit_reward(x), done |-> hit_done(x)] : x \in hit(m)}
    ELSE IF action = 2
    THEN {[m |-> x, reward |-> double_reward(x), done |-> TRUE]
          : x \in UNION {play_dealer(y) : y \in hit(m)}}
    ELSE {[m |-> x, reward |-> stand_reward(x), done |-> TRUE] : x \in play_dealer(m)}

reset_dealer_first(m) ==
    UNION {IF ~h1.m.ok THEN {h1.m}
           ELSE {IF ~h2.m.ok THEN h2.m
                 ELSE [h2.m EXCEPT !.player = h2.hand, !.alias.p = FALSE]
                 : h2 \in draw_hand([h1.m EXCEPT !.dealer = h1.hand, !.alias.d = FALSE])}
           : h1 \in draw_hand(m)}

\* reset() without a state: the player's hand is drawn first, then the dealer's
reset(m) ==
    UNION {IF ~h1.m.ok THEN {h1.m}
           ELSE {IF ~h2.m.ok THEN h2.m
                 ELSE [h2.m EXCEPT !.dealer = h2.hand, !.alias.d = FALSE]
                 : h2 \in draw_hand([h1.m EXCEPT !.player = h1.hand, !.alias.p = FALSE])}
           : h1 \in draw_hand(m)}

\* reset(state): the engine's attributes become the lists of the state
reset_state(m) == [m EXCEPT !.player = m.snap.p, !.dealer = m.snap.d, !.deck3 = m.snap.k,
                            !.alias = [p |-> TRUE, d |-> TRUE, k |-> TRUE]]

\* get_state: deepcopy([self.player, self.dealer, self.deck3]), new lists
get_state(m) == [m EXCEPT !.snap = [has |-> TRUE, p |-> m.player, d |-> m.dealer,
                                    k |-> m.deck3],
                          !.alias = [p |-> FALSE, d |-> FALSE, k |-> FALSE]]

\* ---------------------------------------------------------------- actions
NoSnap == [has |-> FALSE, p |-> <<>>, d |-> <<>>, k |-> <<>>]
NoAlias == [p |-> FALSE, d |-> FALSE, k |-> FALSE]
NoObs == <<0, 0, FALSE>>

Returned(obs, reward, done) == [obs |-> obs, reward |-> reward, done |-> done,
                                raised |-> "none"]
Raised(e) == [obs |-> NoObs, reward |-> 0, done |-> FALSE, raised |-> e]

\* The cards drawn since the last refill, after the draws of a call.
NoFill == [r \in 1..10 |-> 0]

RECURSIVE Filled(_, _)
Filled(f, l) ==
    IF l = <<>> THEN f
    ELSE LET e == Head(l)
             g == IF e.from # e.before THEN NoFill ELSE f
         IN  Filled([g EXCEPT ![e.card] = @ + 1], Tail(l))

NoProbe == [kind |-> "none"]

\* A call made on the engine, with the source within the bound of the behaviour.
Seeded == [Machine EXCEPT !.rng = [known |-> TRUE, pick |-> pick,
                                   other |-> maxOther - others]]

\* The caller makes a call while fewer than maxDraws cards have been drawn
\* after construction.
Started == drawn < maxDraws

\* The draws of the call are counted.
Counted(m) ==
    /\ drawn' = drawn + Len(m.log)
    /\ others' = maxOther - m.rng.other

\* The objects as the call leaves them.
Install(m) ==
    /\ player' = m.player
    /\ dealer' = m.dealer
    /\ deck3' = m.deck3
    /\ snap' = m.snap
    /\ alias' = m.alias
    /\ log' = m.log

\* BlackjackEnv(natural), which ends with self.reset() and its four draws,
\* under an interpreter that runs assert statements or one that does not
InitWith(p, o, c) ==
    /\ pick = p
    /\ maxOther = o
    /\ maxDraws = c
    /\ drawn = 0
    /\ others = 0
    /\ natural \in BOOLEAN
    /\ asserts \in BOOLEAN
    /\ \E m \in reset([player |-> <<>>, dealer |-> <<>>, deck3 |-> FreshDeck3,
                       snap |-> NoSnap, alias |-> NoAlias,
                       rng |-> [known |-> TRUE, pick |-> p, other |-> 0],
                       log |-> <<>>, ok |-> TRUE]) :
          /\ player = m.player
          /\ dealer = m.dealer
          /\ deck3 = m.deck3
          /\ snap = m.snap
          /\ alias = m.alias
          /\ log = m.log
          /\ upcard = m.log[3].card
          /\ fill = Filled(NoFill, m.log)
          /\ ret = Returned(get_obs(m), 0, FALSE)
    /\ call = [op |-> "reset", action |-> 0]
    /\ phase = "IN_PROGRESS"
    /\ taken = NoSnap
    /\ adopted = FALSE
    /\ steps = 0
    /\ probe = NoProbe
    /\ direct = 0

\* env.reset()
Reset ==
    /\ Started
    /\ \E m \in reset(Seeded) :
          /\ Counted(m)
          /\ Install(m)
          /\ fill' = Filled(fill, m.log)
          /\ IF m.ok
             THEN /\ ret' = Returned(get_obs(m), 0, FALSE)
                  /\ phase' = "IN_PROGRESS"
                  /\ upcard' = m.log[3].card
                  /\ steps' = 0
             ELSE /\ ret' = Raised("ValueError")
                  /\ UNCHANGED <<phase, upcard, steps>>
    /\ call' = [op |-> "reset", action |-> 0]
    /\ UNCHANGED <<natural, taken, adopted, probe, pick, maxOther, maxDraws, asserts, direct>>

\* env.reset(s), s the snapshot the caller holds
ResetState ==
    /\ Started
    /\ snap.has
    /\ LET m == reset_state(Machine)
       IN  /\ Install(m)
           /\ ret' = Returned(get_obs(m), 0, FALSE)
    /\ call' = [op |-> "reset_state", action |-> 0]
    /\ phase' = "ADOPTED"
    /\ adopted' = TRUE
    /\ steps' = 0
    /\ UNCHANGED <<natural, taken, upcard, fill, probe, drawn, others, pick,
                   maxOther, maxDraws, asserts, direct>>

\* s = env.get_state()
GetState ==
    /\ Started
    /\ LET m == get_state(Machine)
       IN  /\ Install(m)
           /\ taken' = m.snap
    /\ call' = [op |-> "get_state", action |-> 0]
    /\ ret' = Returned(NoObs, 0, FALSE)
    /\ adopted' = FALSE
    /\ UNCHANGED <<natural, phase, upcard, fill, steps, probe, drawn, others, pick,
                   maxOther, maxDraws, asserts, direct>>

Step_refusing_after_done(a) ==
    /\ Started
    /\ call' = [op |-> "step", action |-> a]
    /\ IF (asserts /\ ~contains(a)) \/ phase = "DONE"
       THEN /\ ret' = Raised("AssertionError")
            /\ log' = <<>>
            /\ UNCHANGED <<player, dealer, deck3, snap, alias, phase, drawn, others,
                           fill, steps>>
       ELSE \E o \in step(Seeded, a) :
               /\ Counted(o.m)
               /\ Install(o.m)
               /\ fill' = Filled(fill, o.m.log)
               /\ steps' = IF ~o.m.ok THEN steps
                           ELSE IF phase = "IN_PROGRESS" /\ ~o.done
                                THEN steps + 1 ELSE 0
               /\ IF o.m.ok
                  THEN /\ ret' = Returned(get_obs(o.m), o.reward, o.done)
                       /\ phase' = IF o.done THEN "DONE" ELSE phase
                  ELSE /\ ret' = Raised("ValueError")
                       /\ UNCHANGED phase
    /\ UNCHANGED <<natural, taken, adopted, upcard, probe, pick, maxOther, maxDraws,
                   asserts, direct>>

\* env.step(a). The assert of the first line is run or not, as the
\* interpreter does; when it is not run, an action that is neither 1 nor 2
\* takes the last branch, which is the branch of STAND.
Step(a) ==
    /\ Started
    /\ call' = [op |-> "step", action |-> a]
    /\ IF asserts /\ ~contains(a)
       THEN /\ ret' = Raised("AssertionError")
            /\ log' = <<>>
            /\ UNCHANGED <<player, dealer, deck3, snap, alias, phase, drawn, others,
                           fill, steps>>
       ELSE \E o \in step(Seeded, a) :
               /\ Counted(o.m)
               /\ Install(o.m)
               /\ fill' = Filled(fill, o.m.log)
               /\ steps' = IF ~o.m.ok THEN steps
                           ELSE IF phase = "IN_PROGRESS" /\ ~o.done
                                THEN steps + 1 ELSE 0
               /\ IF o.m.ok
                  THEN /\ ret' = Returned(get_obs(o.m), o.reward, o.done)
                       /\ phase' = IF o.done THEN "DONE" ELSE phase
                  ELSE /\ ret' = Raised("ValueError")
                       /\ UNCHANGED phase
    /\ UNCHANGED <<natural, taken, adopted, upcard, probe, pick, maxOther, maxDraws,
                   asserts, direct>>

\* env.draw_card(), called by the caller: the card leaves the shoe and goes
\* to no hand
DrawCard ==
    /\ Started
    /\ \E o \in draw_card(Seeded) :
          /\ Counted(o.m)
          /\ Install(o.m)
          /\ fill' = Filled(fill, o.m.log)
          /\ ret' = IF o.m.ok THEN Returned(NoObs, 0, FALSE) ELSE Raised("ValueError")
    /\ call' = [op |-> "draw_card", action |-> 0]
    /\ direct < MaxDirect
    /\ direct' = direct + 1
    /\ UNCHANGED <<natural, phase, taken, adopted, upcard, steps, probe, pick,
                   maxOther, maxDraws, asserts>>

\* env.draw_hand(), called by the caller: two cards leave the shoe, the hands
\* of the engine stay as they are
DrawHand ==
    /\ Started
    /\ \E o \in draw_hand(Seeded) :
          /\ Counted(o.m)
          /\ Install(o.m)
          /\ fill' = Filled(fill, o.m.log)
          /\ ret' = IF o.m.ok THEN Returned(NoObs, 0, FALSE) ELSE Raised("ValueError")
    /\ call' = [op |-> "draw_hand", action |-> 0]
    /\ direct < MaxDirect
    /\ direct' = direct + 1
    /\ UNCHANGED <<natural, phase, taken, adopted, upcard, steps, probe, pick,
                   maxOther, maxDraws, asserts>>

\* env.seed(): self.np_random becomes a new generator; the lists of the
\* engine and the round stay as they are
Seed ==
    /\ Started
    /\ call' = [op |-> "seed", action |-> 0]
    /\ ret' = Returned(NoObs, 0, FALSE)
    /\ log' = <<>>
    /\ UNCHANGED <<natural, player, dealer, deck3, snap, alias, phase, taken, adopted,
                   upcard, fill, steps, probe, drawn, others, pick, maxOther,
                   maxDraws, asserts, direct>>

\* What a caller may pass to step: the three actions, and an integer on
\* either side of them.
Actions == -1..3

\* Any caller of the engine.
Next == \/ Reset
        \/ \E a \in Actions : Step(a)
        \/ DrawCard
        \/ DrawHand
        \/ Seed

\* A caller that plays the round the constructor dealt.
NextPlay == \/ \E a \in Actions : Step(a)
            \/ Seed

\* A caller that hits.
NextHit == Step(1)

\* One call with every card free, on a round dealt from three ranks.
InitRound == InitWith(First(Order, MaxRanks), MaxOther, MaxDraws)

\* Long rounds of low cards.
InitLow == InitWith(First(OrderLow, MaxRanksLow), MaxOtherLow, MaxDrawsLow)

Init == InitRound \/ InitLow

Spec == Init /\ [][NextPlay]_vars

\* One hit with every card free, on every deal of the constructor, and the
\* long rounds of low cards with nothing but hits.
InitDeal == InitWith(First(Order, MaxRanksDeal), MaxOtherDeal, MaxDrawsDeal)

InitHit == InitDeal \/ InitLow

SpecDeal == InitHit /\ [][NextHit]_vars

\* One call with every card free on the shoe that the deal of four tens
\* leaves, and the long runs that empty the shoe down to the low-water mark.
InitReset == InitWith(First(Order, MaxRanksReset), MaxOtherReset, MaxDrawsReset)

InitLong == InitWith(First(Order, MaxRanksShoe), MaxOtherShoe, MaxDrawsShoe)

InitShoe == InitReset \/ InitLong

SpecShoe == InitShoe /\ [][Next]_vars

\* The caller also takes snapshots and restarts from them.
InitSnap == InitWith(First(Order, MaxRanksSnap), MaxOtherSnap, MaxDrawsSnap)

NextSnap == \/ Reset
            \/ ResetState
            \/ GetState
            \/ \E a \in Actions : Step(a)
            \/ DrawCard
            \/ DrawHand
            \/ Seed

SpecSnap == InitSnap /\ [][NextSnap]_vars

\* The hand helpers and cmp called directly, on any hand of ranks 1..10 and
\* any two integers; the engine is left as constructed.
EvalHand(c) ==
    /\ probe.kind \in {"none", "hand"}
    /\ LET hand == IF probe.kind = "hand" THEN Append(probe.hand, c) ELSE <<c>>
       IN  /\ Len(hand) <= MaxHandLen
           /\ probe' = [kind   |-> "hand",
                        hand   |-> hand,
                        usable |-> usable_ace(hand),
                        total  |-> sum_hand(hand),
                        bust   |-> is_bust(hand),
                        score  |-> score(hand)]
    /\ UNCHANGED <<natural, player, dealer, deck3, snap, alias, call, ret, log,
                   phase, taken, adopted, upcard, fill, steps, drawn, others, pick,
                   maxOther, maxDraws, asserts, direct>>

EvalCmp(a, b) ==
    /\ probe.kind \in {"none", "cmp"}
    /\ probe' = [kind |-> "cmp", a |-> a, b |-> b,
                 ab |-> cmp(a, b), ba |-> cmp(b, a), aa |-> cmp(a, a)]
    /\ UNCHANGED <<natural, player, dealer, deck3, snap, alias, call, ret, log,
                   phase, taken, adopted, upcard, fill, steps, drawn, others, pick,
                   maxOther, maxDraws, asserts, direct>>

NextPure == \/ \E c \in 1..10 : EvalHand(c)
            \/ \E a, b \in -MaxInt..MaxInt : EvalCmp(a, b)

InitPure == InitWith(First(Order, MaxRanksReset), MaxOtherReset, MaxDrawsReset)

SpecPure == InitPure /\ [][NextPure]_vars

\* ----------------------------------------------------------------- claims
\* The cards a call drew, in order.
RECURSIVE Cards(_)
Cards(l) == IF l = <<>> THEN <<>> ELSE <<Head(l).card>> \o Cards(Tail(l))

IsPrefix(s, u) == Len(s) <= Len(u) /\ SubSeq(u, 1, Len(s)) = s

\* The rules of the game, as the specification words them.
Busted(hand) == sum_hand(hand) > 21
Points(hand) == IF Busted(hand) THEN 0 ELSE sum_hand(hand)
Outcome(p, d) == IF Points(p) > Points(d) THEN 1 ELSE IF Points(p) < Points(d) THEN -1 ELSE 0
AceAndTen(hand) == Len(hand) = 2 /\ {hand[1], hand[2]} = {1, 10}

StepOf(a) == call'.op = "step" /\ call'.action = a

\* C1: the shoe never runs empty and every draw succeeds: a draw that finds
\* 15 cards or fewer picks from the full 3-deck shoe, any other draw from
\* the cards that are left, and no call raises for want of a card.
C1_ShoeNeverEmpty ==
    /\ Len(deck3) > 0
    /\ ret.raised # "ValueError"
    /\ \A i \in DOMAIN log :
          /\ log[i].from > 0
          /\ log[i].before <= 15 => log[i].from = 3 * Len(deck)
          /\ log[i].before > 15 => log[i].from = log[i].before

\* A draw has found the shoe at the low-water mark and refilled it.
C1_Witness ==
    \E i \in DOMAIN log : log[i].before <= 15 /\ log[i].from = 3 * Len(deck)

\* C2: every reset(s) puts the engine in the hands and the shoe that the
\* snapshot s held when get_state returned it.
C2_RestartFromSnapshot ==
    call.op = "reset_state" =>
        /\ player = taken.p
        /\ dealer = taken.d
        /\ deck3 = taken.k

\* C3: whatever steps and reset calls are made on the engine after
\* get_state returned, the snapshot keeps the hands and the shoe it was
\* returned with.
C3_SnapshotIndependent ==
    snap.has => snap = taken

\* C4: HIT on a round in progress appends the one card it draws to the
\* player's hand and leaves the dealer's hand alone; it returns done and
\* reward -1 when the player is bust, not done and reward 0 otherwise.
C4_Hit ==
    [][(StepOf(1) /\ phase = "IN_PROGRESS") =>
          /\ ret'.raised = "none"
          /\ Len(log') = 1
          /\ player' = Append(player, log'[1].card)
          /\ dealer' = dealer
          /\ ret'.done = Busted(player')
          /\ ret'.reward = IF Busted(player') THEN -10 ELSE 0]_vars

\* A hit on the hand the constructor dealt has drawn an ace and has not
\* bust it, the ace counting 1.
C4_Witness ==
    /\ call.op = "step" /\ call.action = 1
    /\ drawn = 1 /\ Len(log) = 1
    /\ player = <<9, 7, 1>>
    /\ ~ret.done /\ ret.reward = 0
    /\ phase = "IN_PROGRESS"

\* C5: STAND leaves the player's hand alone, the dealer draws exactly while
\* its total is below 17, and the call returns done with the comparison of
\* the scores as reward, or 1.5 in place of a win.
C5_Stand ==
    [][StepOf(0) =>
          /\ ret'.raised = "none"
          /\ player' = player
          /\ dealer' = dealer \o Cards(log')
          /\ \A k \in 0..(Len(log') - 1) :
                sum_hand(dealer \o SubSeq(Cards(log'), 1, k)) < 17
          /\ sum_hand(dealer') >= 17
          /\ ret'.done
          /\ \/ ret'.reward = 10 * Outcome(player', dealer')
             \/ ret'.reward = 15 /\ Outcome(player', dealer') = 1]_vars

\* The dealer stood on exactly 17 after drawing, against a bust-free player.
C5_Witness ==
    /\ call.op = "step" /\ call.action = 0
    /\ Len(log) >= 1
    /\ sum_hand(dealer) = 17
    /\ ret.reward = -10

\* C6: DOUBLE appends one card to the player's hand, plays out the dealer
\* to 17 or more and returns done with twice the comparison of the scores:
\* -2, 0 or 2, never the natural payout.
C6_Double ==
    [][StepOf(2) =>
          /\ ret'.raised = "none"
          /\ Len(log') >= 1
          /\ player' = Append(player, log'[1].card)
          /\ dealer' = dealer \o Tail(Cards(log'))
          /\ \A k \in 0..(Len(log') - 2) :
                sum_hand(dealer \o SubSeq(Tail(Cards(log')), 1, k)) < 17
          /\ sum_hand(dealer') >= 17
          /\ ret'.done
          /\ ret'.reward = 20 * Outcome(player', dealer')
          /\ ret'.reward \in {-20, 0, 20}]_vars

\* A double won with the natural flag set.
C6_Witness ==
    /\ call.op = "step" /\ call.action = 2
    /\ natural
    /\ ret.reward = 20
    /\ Len(dealer) > 2

\* C7: with natural enabled, STAND on the two cards ace and ten pays 1.5
\* for a win and 0 or -1 otherwise; 1.5 is paid in no other case.
C7_Natural ==
    /\ (call.op = "step" /\ call.action = 0 /\ natural /\ AceAndTen(player)) =>
          /\ Outcome(player, dealer) = 1 => ret.reward = 15
          /\ Outcome(player, dealer) # 1 => ret.reward \in {0, -10}
    /\ ret.reward = 15 =>
          /\ call.op = "step" /\ call.action = 0
          /\ natural
          /\ AceAndTen(player)
          /\ Outcome(player, dealer) = 1

\* C8: step with an action outside 0..2 raises and changes neither hand nor
\* the shoe, and draws nothing.
C8_InvalidAction ==
    [][(call'.op = "step" /\ call'.action \notin {0, 1, 2}) =>
          /\ ret'.raised = "AssertionError"
          /\ player' = player
          /\ dealer' = dealer
          /\ deck3' = deck3
          /\ log' = <<>>]_vars

\* C9: reset() and every step of a round in progress return the player's
\* total, the first card dealt to the dealer in this round and the usable
\* ace flag, with the total in 0..31 and the card in 1..10.
ObsOf(p, up) == <<sum_hand(p), up, (\E i \in DOMAIN p : p[i] = 1) /\ Sum(p) + 10 <= 21>>

C9_ObsOK == /\ ret.obs = ObsOf(player, upcard)
            /\ ret.obs[1] \in 0..31
            /\ ret.obs[2] \in 1..10

C9_Observation ==
    /\ C9_ObsOK
    /\ [][(\/ call'.op = "reset"
           \/ call'.op = "step" /\ call'.action \in {0, 1, 2} /\ phase = "IN_PROGRESS")
          => C9_ObsOK']_vars

\* A hit and then a stand, in which the dealer drew a card other than the
\* upcard.
C9_Witness ==
    /\ call.op = "step" /\ call.action = 0
    /\ Len(player) = 3 /\ ~Busted(player)
    /\ Len(dealer) > 2
    /\ Len(log) = Len(dealer) - 2
    /\ drawn = 1 + Len(log)
    /\ dealer[Len(dealer)] # upcard

\* C10: reset() draws two cards for the player and then two for the dealer
\* from the one shoe; the hands hold two or more ranks of 1..10 and a step
\* only appends to them.
C10_HandsOK ==
    /\ Len(player) >= 2
    /\ Len(dealer) >= 2
    /\ \A i \in DOMAIN player : player[i] \in 1..10
    /\ \A i \in DOMAIN dealer : dealer[i] \in 1..10

C10_Hands ==
    /\ [](C10_HandsOK)
    /\ [][call'.op = "reset" =>
             /\ Len(log') = 4
             /\ player' = <<log'[1].card, log'[2].card>>
             /\ dealer' = <<log'[3].card, log'[4].card>>
             /\ log'[1].before = Len(deck3)
             /\ \A i \in 1..3 : log'[i + 1].before = log'[i].from - 1
             /\ Len(deck3') = log'[4].from - 1]_vars
    /\ [][call'.op = "step" => IsPrefix(player, player') /\ IsPrefix(dealer, dealer')]_vars

\* A reset() after construction has dealt different cards to the player and to the
\* dealer.
C10_Witness ==
    /\ call.op = "reset" /\ drawn = 4
    /\ player = <<10, 1>>
    /\ dealer = <<6, 6>>

\* C11: with natural = False, a STAND on a round in progress whose dealer
\* finishes bust returns reward +1.0 (the player of a round in progress
\* is not bust) and ends the round.
C11_DealerBust ==
    [][StepOf(0) /\ phase = "IN_PROGRESS" /\ ~natural /\ Busted(dealer')
           => /\ ~Busted(player')
              /\ ret'.raised = "none"
              /\ ret'.done
              /\ ret'.reward = Tenths(1)]_vars

C11_Witness ==
    /\ call.op = "step" /\ call.action = 0
    /\ ~natural
    /\ phase = "DONE"
    /\ Len(log) >= 1
    /\ drawn = Len(log) + Len(player) - 2
    /\ Busted(dealer) /\ ~Busted(player)
    /\ ret.reward = Tenths(1)
\* C12: for every hand of ranks 1..10, a usable ace makes the hand total
\* the raw sum plus 10, and that is at most 21; without one the total is the
\* raw sum; never more than one ace counts as 11; a bust hand scores 0 and
\* any other hand scores its total.
C12_HandValues ==
    probe.kind = "hand" =>
        LET raw == Sum(probe.hand)
        IN  /\ probe.usable => probe.total = raw + 10 /\ probe.total <= 21
            /\ ~probe.usable => probe.total = raw
            /\ probe.total - raw \in {0, 10}
            /\ probe.bust => probe.score = 0
            /\ ~probe.bust => probe.score = probe.total

C12_Witness ==
    /\ probe.kind = "hand"
    /\ probe.hand = <<1, 1, 1, 8>>
    /\ probe.usable /\ probe.total = 21 /\ probe.score = 21

\* C13: cmp(a, b) = -cmp(b, a) and cmp(a, a) = 0 for integers a and b, and
\* cmp(a, b) is one of -1, 0, +1.
C13_CmpAntisymmetric ==
    probe.kind = "cmp" =>
        /\ probe.ab = -probe.ba
        /\ probe.aa = 0
        /\ probe.ab \in {-1, 0, 1}

C13_Witness ==
    /\ probe.kind = "cmp"
    /\ probe.a = -3 /\ probe.b = 7
    /\ probe.ab = -1 /\ probe.ba = 1
\* C14: a DOUBLE whose card busts the player still plays the dealer out to
\* a total of at least 17 and ends the round; its reward is -2 when the
\* dealer is not bust and 0 when the dealer is bust too.
C14_DoubleBust ==
    [][StepOf(2) /\ Busted(player')
           => /\ ret'.raised = "none"
              /\ ret'.done
              /\ player' = Append(player, log'[1].card)
              /\ dealer' = dealer \o Tail(Cards(log'))
              /\ sum_hand(dealer) < 17 => Len(dealer') > Len(dealer)
              /\ sum_hand(dealer') >= 17
              /\ ret'.reward = IF Busted(dealer') THEN 0 ELSE Tenths(-2)]_vars

C14_Witness ==
    /\ call.op = "step" /\ call.action = 2
    /\ drawn = Len(log)
    /\ Len(log) >= 2
    /\ Busted(player) /\ Len(player) = 3
    /\ Busted(dealer)
    /\ ret.done /\ ret.reward = 0
\* C15: the dealer's play-out of STAND and DOUBLE returns: it draws while
\* the dealer's total is under 17 and no longer, every card raises the
\* dealer's raw sum by at least 1, there are at most 15 draws, and the
\* final total is between 17 and 26.
C15_DealerPlayOut ==
    [][StepOf(0) \/ StepOf(2)
           => LET n == Len(dealer') - Len(dealer)
              IN  /\ ret'.raised = "none"
                  /\ ret'.done
                  /\ Len(dealer) >= 2
                  /\ n \in 0..15
                  /\ IsPrefix(dealer, dealer')
                  /\ \A k \in 0..(n - 1) :
                         /\ sum_hand(SubSeq(dealer', 1, Len(dealer) + k)) < 17
                         /\ Sum(SubSeq(dealer', 1, Len(dealer) + k + 1))
                               >= Sum(SubSeq(dealer', 1, Len(dealer) + k)) + 1
                  /\ sum_hand(dealer') \in 17..26]_vars

\* A stand whose dealer, dealt two aces, drew six cards and went bust at 26.
C15_Witness ==
    /\ call.op = "step" /\ call.action = 0
    /\ drawn = 6 /\ Len(log) = 6
    /\ Len(dealer) = 8
    /\ sum_hand(SubSeq(dealer, 1, 7)) = 16
    /\ sum_hand(dealer) = 26
\* C16: a valid step on a round that has returned done is carried out like
\* any other: HIT appends a drawn card to the player's hand, STAND and
\* DOUBLE play the dealer and score the hands again, and every card drawn
\* leaves the shoe, which is one card shorter after each draw than it was
\* when the card was picked.
C16_StepAfterDone ==
    [][phase = "DONE" /\ (StepOf(0) \/ StepOf(1) \/ StepOf(2))
           => /\ ret'.raised = "none"
              /\ log' # <<>> =>
                    /\ log'[1].before = Len(deck3)
                    /\ \A i \in 1..(Len(log') - 1) : log'[i + 1].before = log'[i].from - 1
                    /\ Len(deck3') = log'[Len(log')].from - 1
              /\ StepOf(1) =>
                    /\ Cards(log') # <<>>
                    /\ player' = player \o Cards(log')
                    /\ dealer' = dealer
                    /\ ret'.done = Busted(player')
                    /\ ret'.reward = IF ret'.done THEN Tenths(-1) ELSE 0
              /\ StepOf(0) =>
                    /\ player' = player
                    /\ dealer' = dealer \o Cards(log')
                    /\ ret'.done
                    /\ \/ ret'.reward = Tenths(Outcome(player', dealer'))
                       \/ Outcome(player', dealer') = 1 /\ ret'.reward = 15
              /\ StepOf(2) =>
                    /\ Cards(log') # <<>>
                    /\ player' = Append(player, Head(Cards(log')))
                    /\ dealer' = dealer \o Tail(Cards(log'))
                    /\ ret'.done
                    /\ ret'.reward = 2 * Tenths(Outcome(player', dealer'))]_vars

\* A hit on a hand that was bust already, the round having ended with it;
\* the hit found the shoe at the low-water mark and drew from the refilled one.
C16_Witness ==
    /\ call.op = "step" /\ call.action = 1
    /\ phase = "DONE"
    /\ Busted(SubSeq(player, 1, Len(player) - 1))
    /\ Len(log) = 1
    /\ log[1].before = 15 /\ log[1].from = 39
    /\ Len(deck3) = 38
    /\ ret.raised = "none" /\ ret.done
\* How many cards of rank r the list d holds.
Count(d, r) == Cardinality({i \in DOMAIN d : d[i] = r})

C17_ShoeOK ==
    /\ Len(deck3) \in 15..38
    /\ \A r \in 1..9 : Count(deck3, r) <= 3
    /\ Count(deck3, 10) <= 12
    /\ \A c \in Held(deck3) : c \in 1..10
    /\ \A r \in 1..10 : Count(deck3, r) + fill[r] = Count(FreshDeck3, r)

C17_Refill(l) == \E i \in DOMAIN l : l[i].before <= 15 /\ l[i].from = 39

\* C17: with no explicit state ever given, the shoe holds 15 to 38 cards
\* after every draw, at most 3 of each rank 1..9 and at most 12 tens; the
\* cards drawn since the shoe was last filled and the cards left in it make
\* up the 3 decks exactly; and the shoe grows only in a draw that found 15
\* cards or fewer, any other call leaving it shorter by the cards it drew.
C17_Shoe ==
    /\ [](~adopted => C17_ShoeOK)
    /\ [][~adopted' =>
            /\ Len(deck3') > Len(deck3) => C17_Refill(log')
            /\ ~C17_Refill(log') =>
                  /\ Len(deck3') = Len(deck3) - Len(log')
                  /\ \A r \in 1..10 : Count(deck3', r) <= Count(deck3, r)]_vars

\* Two draws after the refill.
C17_Witness ==
    /\ ~adopted
    /\ drawn = 22
    /\ Len(deck3) = 37
    /\ fill[10] = 2
    /\ \A r \in 1..9 : fill[r] = 0
\* C18: while a round is in progress, after reset() and after every HIT
\* that returned done = False, the player's hand is not bust: its total is
\* at most 21 and its score is that total, never 0.
C18_InProgressNotBust ==
    phase = "IN_PROGRESS" =>
        /\ sum_hand(player) <= 21
        /\ ~is_bust(player)
        /\ score(player) = sum_hand(player)
        /\ score(player) # 0

\* A hit has brought the hand to 21 and the round goes on.
C18_Witness ==
    /\ phase = "IN_PROGRESS"
    /\ call.op = "step" /\ call.action = 1
    /\ ~ret.done
    /\ steps = 1
    /\ Len(player) = 3
    /\ sum_hand(player) = 21
C19_RoundOK ==
    /\ steps <= 19
    /\ phase = "IN_PROGRESS" =>
          /\ steps = Len(player) - 2
          /\ Sum(player) >= 2 + steps
          /\ Sum(player) <= 21

\* C19: every round that reset() began ends within 20 steps: a round still
\* in progress has taken only hits, each of which raised the player's raw
\* sum by at least 1 and left it at 21 or under; STAND and DOUBLE end the
\* round at once; and the step that returns done = True is its last.
C19_RoundEnds ==
    /\ []C19_RoundOK
    /\ [][phase = "IN_PROGRESS" /\ (StepOf(0) \/ StepOf(1) \/ StepOf(2))
            => /\ ret'.raised = "none"
               /\ StepOf(0) \/ StepOf(2) => ret'.done
               /\ StepOf(1) => /\ Sum(player') >= Sum(player) + 1
                               /\ ret'.done = (Sum(player') > 21)
               /\ ret'.done => phase' = "DONE"
               /\ ~ret'.done => phase' = "IN_PROGRESS" /\ steps' = steps + 1]_vars

\* A round of six steps: five hits, then the hit that busts.
C19_Witness ==
    /\ call.op = "step" /\ call.action = 1
    /\ phase = "DONE" /\ ret.done
    /\ drawn = 6 /\ Len(log) = 1
    /\ Len(player) = 8
    /\ ~Busted(SubSeq(player, 1, 7))
====
